---- MODULE Spec2Model ----
(***************************************************************************)
(* The request/response bridge of the ASGI Go-Julia server.  The           *)
(* repository holds five variants of the same Go server:                   *)
(*   "direct"  src/asgi/server.go lines 1-296    callback with a watchdog  *)
(*   "pull"    src/asgi/server.go lines 298-561  shared events list        *)
(*   "routed"  src/asgi/server.go lines 563-1032 per-path callbacks        *)
(*   "hybrid"  src/unnamed/part_000              callback, then slot wait  *)
(*   "push"    src/unnamed/part_001              buffered events channel   *)
(* Each goroutine (request handler, callback, StopServer, external call)   *)
(* is a process whose steps are the channel and mutex operations of the    *)
(* code.  A buffered Go channel is a sequence (or a counter for the token  *)
(* semaphore) with a closed flag; a send on a closed channel panics and an *)
(* unrecovered panic ends the process (panic).   Timers (time.After) are *)
(* actions that may fire whenever their select is waiting.                 *)
(***************************************************************************)
EXTENDS Integers, Sequences, FiniteSets, TLC

\* Number of HTTP requests that arrive during a run.
MaxReq == 3
\* src: const maxConcurrentRequests = 1000 (100 in the hybrid variant); scaled down.
maxConcurrentRequests == 2
\* Number of requests that arrive in the specifications that also run
\* SubmitResponse calls.
MaxSlotReq == 2
\* Number of SubmitResponse calls made by the external side.
MaxSub == 3
\* Number of SubmitResponse calls in the specifications that need no more than
\* a response and its repetition.
MaxRetrySub == 2
\* Number of successful StartServer calls.
MaxStarts == 2
\* src: make(chan ASGIEvent, 10000); capacity of eventsCh, scaled down.
EventsCap == 1
\* src: GetEvents takes one event and up to 9 more; batch size, scaled down.
BatchSize == 2
\* Number of patterns the routed variant registers handlers for.
MaxPaths == 2
\* Number of tasks that call GetEvents concurrently (run_server_threaded).
MaxConsumers == 2

Req == 1..MaxReq
SlotReq == {p \in Req : p <= MaxSlotReq}
Sub == 1..MaxSub
RetrySub == {s \in Sub : s <= MaxRetrySub}
Ids == 1..MaxReq
\* An id that generateRequestId never returns (also the "" of a zero response).
NoId == 0

\* The patterns RegisterEventCallback is called with in the routed variant.
Paths == 1..MaxPaths
\* src: body = make([]byte, 1<<20); the size of the read buffer, scaled down.
ReadCap == 2
\* Number of values one header key carries at most.
MaxValues == 2
\* The consumer tasks; consumer 1 is the loop of run_server.
Cons == 1..MaxConsumers
\* What globalMux holds for a pattern: nothing, a handler made with a NULL
\* callback, or a handler made with one of the callbacks.
NoHandler == "none"
NullCallback == "NULL"
CallbackFns == {"f", "g"}

DirectV == "direct"
PullV == "pull"
RoutedV == "routed"
HybridV == "hybrid"
PushV == "push"
Variants == {DirectV, PullV, RoutedV, HybridV, PushV}

VARIABLES
    variant,          \* which of the five server sources is running
    server,           \* server != nil
    accepting,        \* the listener of the http.Server is open
    panic,            \* the message of the unrecovered panic that ended the process ("": none)
    starts,           \* successful StartServer calls so far
    requestSemaphore, \* number of tokens in the buffered channel
    requestIdSeq,     \* the atomic sequence counter
    pendingReqs,      \* request id -> the request whose respChan is registered (0: absent)
    events,           \* pull variant: the shared events list (request ids)
    eventsCh,         \* push variant: the buffered events channel (request ids)
    eventsCancelled,  \* push variant: eventsContext.Err() != nil
    eventCallback,    \* direct, hybrid: the registered callback pointer (0: nil)
    pc,               \* request handler position
    reqId,            \* request id generated by the handler (0: none yet)
    respChan,         \* the handler's response channel: [buf, closed]
    got,              \* the value the handler received from its channel
    written,          \* what the handler wrote to its client: sequence of [status, rid]
    cb,               \* the callback invocation made for the request
    subPc, subResp, subChan, subResult,   \* SubmitResponse calls
    subId,            \* the request_id each SubmitResponse call named (NoId: none)
    stopPc, stopI,    \* StopServer position and loop counter
    stopSaw,          \* the requests that were pending when the running StopServer was called
    gcrPc, gcrI, gcrAvail, gcrResult,     \* GetConcurrentRequests call
    consPc, consBatch, \* push variant: a GetEvents call and the batch it builds
    consGen, consI,   \* the context/channel it selects on, and its loop counter
    fetched,          \* request id -> how many times GetEvents has returned its event
    staleCh,          \* push variant: the replaced channel a GetEvents call still selects on
    lifeResult,       \* the message the last StartServer or StopServer call returned
                      \* ("" before the first call and while a StopServer call runs)
    wirePc,           \* where one request is on its way through createASGIEvent and writeResponse
    rawRequest,       \* that request as the client sent it: header lines, Host, body
    wireEvent,        \* the ASGIEvent built from it: the header pairs and the body
    wireResponse,     \* the ASGIResponse the handler gave for it
    wireWritten,      \* what writeResponse put on the ResponseWriter
    mux,              \* routed variant: pattern -> what globalMux has registered for it
    route             \* routed variant: the pattern each request was dispatched to

lifeVars == <<server, accepting, starts, stopPc, stopI, stopSaw>>
semVars == <<requestSemaphore>>
gcrVars == <<gcrPc, gcrI, gcrAvail, gcrResult>>
subVars == <<subPc, subResp, subChan, subResult, subId>>
reqVars == <<pc, reqId, respChan, got, written, cb>>
tableVars == <<requestIdSeq, pendingReqs>>
consVars == <<consPc, consBatch, consGen, consI, fetched, staleCh>>
routeVars == <<mux, route>>
wireVars == <<wirePc, rawRequest, wireEvent, wireResponse, wireWritten>>
queueVars == <<events, eventsCh, eventsCancelled, consVars>>
vars == <<variant, wireVars, panic, eventCallback, lifeVars, semVars, gcrVars, subVars,
          reqVars, tableVars, queueVars, routeVars, lifeResult>>

\* ASGIResponse as far as the bridge looks at it.
Response(r, s) == [kind |-> "ok", rid |-> r, status |-> s]
\* The zero value a receive on a closed channel yields.
ZeroResponse == Response(NoId, 0)
\* What a callback can hand back instead of a response that parses.
NullResult == [kind |-> "null", rid |-> NoId, status |-> 0]
EmptyResult == [kind |-> "empty", rid |-> NoId, status |-> 0]
InvalidResult == [kind |-> "invalid", rid |-> NoId, status |-> 0]
EmptyChan == [buf |-> <<>>, closed |-> FALSE]
NoPending == [i \in Ids |-> 0]

HasSemaphore == variant # PushV
HasTable == variant \in {PullV, HybridV, PushV}
HasCallback == variant \in {DirectV, RoutedV, HybridV}

InFlight(p) == pc[p] \notin {"idle", "done"}
\* The requests whose handler waits on a slot registered in pendingReqs.
Pending == {p \in Req : pc[p] = "waiting" /\ reqId[p] # 0 /\ pendingReqs[reqId[p]] = p}
SemFull == requestSemaphore >= maxConcurrentRequests

\* No request is followed through the conversions.
NoWire ==
    /\ wirePc = "off"
    /\ rawRequest = <<>>
    /\ wireEvent = <<>>
    /\ wireResponse = <<>>
    /\ wireWritten = <<>>

\* The globals as the package initialises them.
InitBridge ==
    /\ variant \in Variants
    /\ server = FALSE
    /\ accepting = FALSE
    /\ panic = ""
    /\ starts = 0
    /\ requestSemaphore = 0
    /\ requestIdSeq = 0
    /\ pendingReqs = NoPending
    /\ events = <<>>
    /\ eventsCh = <<>>
    /\ eventsCancelled = FALSE
    /\ eventCallback = 0
    /\ pc = [p \in Req |-> "idle"]
    /\ reqId = [p \in Req |-> 0]
    /\ respChan = [p \in Req |-> EmptyChan]
    /\ got = [p \in Req |-> ZeroResponse]
    /\ written = [p \in Req |-> <<>>]
    /\ cb = [p \in Req |-> "none"]
    /\ subPc = [s \in Sub |-> "idle"]
    /\ subResp = [s \in Sub |-> ZeroResponse]
    /\ subId = [s \in Sub |-> NoId]
    /\ subChan = [s \in Sub |-> 0]
    /\ subResult = [s \in Sub |-> ""]
    /\ stopPc = "idle"
    /\ stopI = 0
    /\ stopSaw = {}
    /\ gcrPc = "idle"
    /\ gcrI = 0
    /\ gcrAvail = 0
    /\ gcrResult = -1
    /\ consPc = [c \in Cons |-> "idle"]
    /\ consBatch = [c \in Cons |-> <<>>]
    /\ consGen = [c \in Cons |-> 0]
    /\ consI = [c \in Cons |-> 0]
    /\ fetched = [i \in Ids |-> 0]
    /\ staleCh = [g \in 0..MaxStarts |-> <<>>]
    /\ lifeResult = ""
    /\ mux = [path \in Paths |-> NoHandler]
    /\ route = [p \in Req |-> 0]

Init == InitBridge /\ NoWire

----------------------------------------------------------------------------
(* Lifecycle: StartServer and StopServer, serialised by serverMu.          *)

\* eventsCancel(): a GetEvents call that is blocked in its select with nothing
\* to receive proceeds with the case that became ready first, the Done case
\* of its context.  A blocked call whose channel holds an event has already
\* been woken by that event.
WakeBlocked ==
    [c \in Cons |->
        IF consPc[c] = "blocked"
           /\ (IF consGen[c] = starts THEN eventsCh ELSE staleCh[consGen[c]]) = <<>>
        THEN "stopped" ELSE consPc[c]]

\* make(chan ASGIEvent, 10000) in StartServer: the channel that eventsCh named
\* so far lives on for the GetEvents calls that wait on it.
KeepStale ==
    IF variant = PushV /\ \E c \in Cons : consPc[c] = "blocked" /\ consGen[c] = starts
    THEN [staleCh EXCEPT ![starts] = eventsCh] ELSE staleCh

\* A faulty StartServer, against which the clean start is tested: it keeps
\* the event buffers of the run before.
StartServerKeepingEvents ==
    /\ panic = ""
    /\ stopPc = "idle"
    /\ ~server
    /\ starts < MaxStarts
    /\ starts' = starts + 1
    /\ server' = TRUE
    /\ accepting' = TRUE
    /\ lifeResult' = "Server started"
    /\ requestSemaphore' = IF HasSemaphore THEN 0 ELSE requestSemaphore
    /\ pendingReqs' = IF HasTable THEN NoPending ELSE pendingReqs
    /\ eventsCancelled' = IF variant = PushV THEN FALSE ELSE eventsCancelled
    /\ consPc' = IF variant = PushV THEN WakeBlocked ELSE consPc
    /\ UNCHANGED <<stopPc, stopI, stopSaw, requestIdSeq, consBatch, consGen,
                   consI, fetched, events, eventsCh, staleCh>>
    /\ UNCHANGED <<variant, wireVars, routeVars, panic, eventCallback, gcrVars, subVars, reqVars>>

\* A faulty StartServer, against which the uniqueness of request ids is
\* tested: it starts the sequence counter again from zero.
StartServerResettingIds ==
    /\ panic = ""
    /\ stopPc = "idle"
    /\ ~server
    /\ starts < MaxStarts
    /\ starts' = starts + 1
    /\ server' = TRUE
    /\ accepting' = TRUE
    /\ lifeResult' = "Server started"
    /\ requestIdSeq' = 0
    /\ requestSemaphore' = IF HasSemaphore THEN 0 ELSE requestSemaphore
    /\ pendingReqs' = IF HasTable THEN NoPending ELSE pendingReqs
    /\ events' = IF variant = PullV THEN <<>> ELSE events
    /\ eventsCh' = IF variant = PushV THEN <<>> ELSE eventsCh
    /\ eventsCancelled' = IF variant = PushV THEN FALSE ELSE eventsCancelled
    /\ staleCh' = KeepStale
    /\ consPc' = IF variant = PushV THEN WakeBlocked ELSE consPc
    /\ UNCHANGED <<stopPc, stopI, stopSaw, consBatch, consGen, consI, fetched>>
    /\ UNCHANGED <<variant, wireVars, routeVars, panic, eventCallback, gcrVars, subVars, reqVars>>

\* StartServer on a stopped server: fresh table, list and semaphore (and, in
\* the push variant, the old context cancelled, a fresh context and channel).
\* A GetEvents call that waits in its select keeps the channel and the context
\* it entered with: cancelling that context wakes it (WakeBlocked).
StartServer ==
    /\ panic = ""
    /\ stopPc = "idle"
    /\ ~server
    /\ starts < MaxStarts
    /\ starts' = starts + 1
    /\ server' = TRUE
    /\ accepting' = TRUE
    /\ lifeResult' = "Server started"
    /\ requestSemaphore' = IF HasSemaphore THEN 0 ELSE requestSemaphore
    /\ pendingReqs' = IF HasTable THEN NoPending ELSE pendingReqs
    /\ events' = IF variant = PullV THEN <<>> ELSE events
    /\ eventsCh' = IF variant = PushV THEN <<>> ELSE eventsCh
    /\ eventsCancelled' = IF variant = PushV THEN FALSE ELSE eventsCancelled
    /\ staleCh' = KeepStale
    /\ consPc' = IF variant = PushV THEN WakeBlocked ELSE consPc
    /\ UNCHANGED <<stopPc, stopI, stopSaw, requestIdSeq, consBatch, consGen,
                   consI, fetched>>
    /\ UNCHANGED <<variant, wireVars, routeVars, panic, eventCallback, gcrVars, subVars, reqVars>>

\* Two faulty early returns, against which the frame of the rejected calls
\* is tested: they do the first step of the call's work before the check of
\* server (a fresh semaphore or a cancelled context; the "drain" loop or
\* eventsCancel()).
StartServerAgainResetting ==
    /\ panic = ""
    /\ stopPc = "idle"
    /\ server
    /\ lifeResult' = "Server is already running"
    /\ requestSemaphore' = IF HasSemaphore THEN 0 ELSE requestSemaphore
    /\ eventsCancelled' = IF variant = PushV THEN TRUE ELSE eventsCancelled
    /\ UNCHANGED <<variant, wireVars, routeVars, panic, eventCallback, lifeVars, gcrVars,
                   subVars, reqVars, tableVars, events, eventsCh, consVars>>

StopServerIdleDraining ==
    /\ panic = ""
    /\ stopPc = "idle"
    /\ ~server
    /\ lifeResult' = "Server is not running"
    /\ requestSemaphore' = IF HasSemaphore THEN maxConcurrentRequests ELSE requestSemaphore
    /\ eventsCancelled' = IF variant = PushV THEN TRUE ELSE eventsCancelled
    /\ UNCHANGED <<variant, wireVars, routeVars, panic, eventCallback, lifeVars, gcrVars,
                   subVars, reqVars, tableVars, events, eventsCh, consVars>>

\* StartServer while server != nil: the early return.
StartServerAgain ==
    /\ panic = ""
    /\ stopPc = "idle"
    /\ server
    /\ lifeResult' = "Server is already running"
    /\ UNCHANGED <<variant, wireVars, routeVars, panic, eventCallback, lifeVars, semVars, gcrVars,
                   subVars, reqVars, tableVars, queueVars>>

\* StopServer while server == nil: the early return.
StopServerIdle ==
    /\ panic = ""
    /\ stopPc = "idle"
    /\ ~server
    /\ lifeResult' = "Server is not running"
    /\ UNCHANGED <<variant, wireVars, routeVars, panic, eventCallback, lifeVars, semVars, gcrVars,
                   subVars, reqVars, tableVars, queueVars>>

\* A faulty StopServer, against which the wake-up of consumers is tested: it
\* goes to server.Shutdown without calling eventsCancel().
StopServerWithoutCancel ==
    /\ panic = ""
    /\ stopPc = "idle"
    /\ server
    /\ stopPc' = "shutdown"
    /\ accepting' = FALSE
    /\ stopSaw' = Pending
    /\ lifeResult' = ""
    /\ UNCHANGED <<server, starts, stopI>>
    /\ UNCHANGED <<variant, wireVars, routeVars, panic, eventCallback, semVars, gcrVars, subVars,
                   reqVars, tableVars, queueVars>>

\* StopServer on a running server, up to the call of server.Shutdown: the
\* listener is closed (and in the push variant eventsCancel() has run).
StopServerBegin ==
    /\ panic = ""
    /\ stopPc = "idle"
    /\ server
    /\ stopPc' = "shutdown"
    /\ accepting' = FALSE
    /\ eventsCancelled' = IF variant = PushV THEN TRUE ELSE eventsCancelled
    /\ consPc' = IF variant = PushV THEN WakeBlocked ELSE consPc
    /\ stopSaw' = Pending
    /\ lifeResult' = ""
    /\ UNCHANGED <<server, starts, stopI>>
    /\ UNCHANGED <<variant, wireVars, routeVars, panic, eventCallback, semVars, gcrVars, subVars,
                   reqVars, tableVars, events, eventsCh, consBatch, consGen, consI,
                   fetched, staleCh>>

\* The cleanup loop of StopServer, under pendingMu: close and delete every slot.
ClosePending(chans, table) ==
    [p \in Req |-> IF \E i \in Ids : table[i] = p
                   THEN [chans[p] EXCEPT !.closed = TRUE]
                   ELSE chans[p]]

\* close() of an already closed channel panics.
ClosesClosed(chans, table) ==
    \E i \in Ids : table[i] # 0 /\ chans[table[i]].closed

\* A faulty shutdown, against which the single close of a slot's channel is
\* tested: it returns nil at once, as server.Close() would, while handlers
\* still run.
ShutdownWithoutWaiting ==
    /\ panic = ""
    /\ stopPc = "shutdown"
    /\ IF HasTable
       THEN /\ respChan' = ClosePending(respChan, pendingReqs)
            /\ pendingReqs' = NoPending
            /\ panic' = IF ClosesClosed(respChan, pendingReqs)
                        THEN "StopServer: close of closed channel" ELSE ""
       ELSE UNCHANGED <<respChan, pendingReqs, panic>>
    /\ IF HasSemaphore
       THEN /\ stopPc' = "fill"
            /\ stopI' = 0
            /\ UNCHANGED <<server, lifeResult>>
       ELSE /\ stopPc' = "idle"
            /\ server' = FALSE
            /\ lifeResult' = "Server stopped"
            /\ UNCHANGED stopI
    /\ stopSaw' = {}
    /\ UNCHANGED <<variant, wireVars, routeVars, eventCallback, accepting, starts, semVars, gcrVars, subVars,
                   pc, reqId, got, written, cb, requestIdSeq, queueVars>>

\* server.Shutdown returned nil: no handler is running any more.
ShutdownOk ==
    /\ panic = ""
    /\ stopPc = "shutdown"
    /\ \A p \in Req : ~InFlight(p)
    /\ IF HasTable
       THEN /\ respChan' = ClosePending(respChan, pendingReqs)
            /\ pendingReqs' = NoPending
            /\ panic' = IF ClosesClosed(respChan, pendingReqs)
                        THEN "StopServer: close of closed channel" ELSE ""
       ELSE UNCHANGED <<respChan, pendingReqs, panic>>
    /\ IF HasSemaphore
       THEN /\ stopPc' = "fill"
            /\ stopI' = 0
            /\ UNCHANGED <<server, lifeResult>>
       ELSE /\ stopPc' = "idle"
            /\ server' = FALSE
            /\ lifeResult' = "Server stopped"
            /\ UNCHANGED stopI
    /\ stopSaw' = {}
    /\ UNCHANGED <<variant, wireVars, routeVars, eventCallback, accepting, starts, semVars, gcrVars, subVars,
                   pc, reqId, got, written, cb, requestIdSeq, queueVars>>

\* server.Shutdown returned the context's error after 5 s: handlers are still
\* running; StopServer returns the error and changes nothing else.
ShutdownTimeout ==
    /\ panic = ""
    /\ stopPc = "shutdown"
    /\ \E p \in Req : InFlight(p)
    /\ stopPc' = "idle"
    /\ stopSaw' = {}
    /\ lifeResult' = "Error shutting down server"
    /\ UNCHANGED <<variant, wireVars, routeVars, panic, eventCallback, server, accepting, starts, stopI,
                   semVars, gcrVars, subVars, reqVars, tableVars, queueVars>>

\* One iteration of the "drain" loop of StopServer: a non-blocking send of a
\* token (the break leaves the select only, so the loop runs to the end).
StopFill ==
    /\ panic = ""
    /\ stopPc = "fill"
    /\ stopI < maxConcurrentRequests
    /\ requestSemaphore' = IF SemFull THEN requestSemaphore ELSE requestSemaphore + 1
    /\ stopI' = stopI + 1
    /\ UNCHANGED <<variant, wireVars, routeVars, lifeResult, panic, eventCallback, server, accepting, starts, stopPc, stopSaw,
                   gcrVars, subVars, reqVars, tableVars, queueVars>>

StopFinish ==
    /\ panic = ""
    /\ stopPc = "fill"
    /\ stopI = maxConcurrentRequests
    /\ server' = FALSE
    /\ stopPc' = "idle"
    /\ stopI' = 0
    /\ lifeResult' = "Server stopped"
    /\ UNCHANGED <<variant, wireVars, routeVars, panic, eventCallback, accepting, starts, stopSaw,
                   semVars, gcrVars, subVars, reqVars, tableVars, queueVars>>

----------------------------------------------------------------------------
(* GetConcurrentRequests: fill the semaphore without blocking, counting    *)
(* the sends that succeeded, then take that many tokens back.              *)

GcrBegin ==
    /\ panic = ""
    /\ HasSemaphore
    /\ gcrPc = "idle"
    /\ gcrPc' = "count"
    /\ gcrI' = 0
    /\ gcrAvail' = 0
    /\ UNCHANGED <<gcrResult, variant, wireVars, routeVars, lifeResult, panic, eventCallback, lifeVars, semVars,
                   subVars, reqVars, tableVars, queueVars>>

GcrCount ==
    /\ panic = ""
    /\ gcrPc = "count"
    /\ gcrI < maxConcurrentRequests
    /\ IF SemFull
       THEN UNCHANGED <<requestSemaphore, gcrAvail>>
       ELSE /\ requestSemaphore' = requestSemaphore + 1
            /\ gcrAvail' = gcrAvail + 1
    /\ gcrI' = gcrI + 1
    /\ UNCHANGED <<gcrPc, gcrResult, variant, wireVars, routeVars, lifeResult, panic, eventCallback, lifeVars,
                   subVars, reqVars, tableVars, queueVars>>

GcrCounted ==
    /\ panic = ""
    /\ gcrPc = "count"
    /\ gcrI = maxConcurrentRequests
    /\ gcrPc' = "return"
    /\ gcrI' = 0
    /\ UNCHANGED <<gcrAvail, gcrResult, variant, wireVars, routeVars, lifeResult, panic, eventCallback, lifeVars,
                   semVars, subVars, reqVars, tableVars, queueVars>>

\* <-requestSemaphore: blocks while the channel is empty.
GcrReturn ==
    /\ panic = ""
    /\ gcrPc = "return"
    /\ gcrI < gcrAvail
    /\ requestSemaphore > 0
    /\ requestSemaphore' = requestSemaphore - 1
    /\ gcrI' = gcrI + 1
    /\ UNCHANGED <<gcrPc, gcrAvail, gcrResult, variant, wireVars, routeVars, lifeResult, panic, eventCallback,
                   lifeVars, subVars, reqVars, tableVars, queueVars>>

GcrDone ==
    /\ panic = ""
    /\ gcrPc = "return"
    /\ gcrI = gcrAvail
    /\ gcrResult' = maxConcurrentRequests - gcrAvail
    /\ gcrPc' = "idle"
    /\ gcrI' = 0
    /\ gcrAvail' = 0
    /\ UNCHANGED <<variant, wireVars, routeVars, lifeResult, panic, eventCallback, lifeVars, semVars,
                   subVars, reqVars, tableVars, queueVars>>

----------------------------------------------------------------------------
(* The request handler: admission gate, slot registration, hand-off, wait. *)

\* net/http accepts the status codes 100..999 (checkWriteHeaderCode).
ValidStatus(status) == status >= 100 /\ status <= 999

\* The statuses a response from the external side carries here: 200, and 0 for
\* a response whose JSON has no "status" (the zero value of the int field).
Statuses == {200, 0}

WriteStatus(p, status, rid) == [written EXCEPT ![p] = Append(@, [status |-> status, rid |-> rid])]

\* writeResponse / w.WriteHeader(response.Status): net/http panics on a status
\* outside 100..999; the server recovers the handler's panic and nothing is
\* written to the client.
WriteResponse(p, resp) ==
    IF ValidStatus(resp.status)
    THEN WriteStatus(p, resp.status, resp.rid)
    ELSE written

\* A request reaches the handler while the listener is open.  Requests are
\* numbered in the order they arrive.
Arrive(p) ==
    /\ panic = ""
    /\ server
    /\ accepting
    /\ pc[p] = "idle"
    /\ IF p = 1 THEN TRUE ELSE pc[p - 1] # "idle"
    /\ pc' = [pc EXCEPT ![p] = IF HasSemaphore THEN "gate" ELSE "admitted"]
    /\ UNCHANGED <<variant, wireVars, routeVars, lifeResult, panic, eventCallback, lifeVars, semVars, gcrVars, subVars,
                   reqId, respChan, got, written, cb, tableVars, queueVars>>

\* case requestSemaphore <- struct{}{}
Acquire(p) ==
    /\ panic = ""
    /\ pc[p] = "gate"
    /\ ~SemFull
    /\ requestSemaphore' = requestSemaphore + 1
    /\ pc' = [pc EXCEPT ![p] = "admitted"]
    /\ UNCHANGED <<variant, wireVars, routeVars, lifeResult, panic, eventCallback, lifeVars, gcrVars, subVars,
                   reqId, respChan, got, written, cb, tableVars, queueVars>>

\* A faulty timeout branch, against which the frame of the 503 exit is tested:
\* it runs the release of a token the handler never acquired.
GateTimeoutReleasing(p) ==
    /\ panic = ""
    /\ pc[p] = "gate"
    /\ SemFull
    /\ written' = WriteStatus(p, 503, NoId)
    /\ requestSemaphore' = requestSemaphore - 1
    /\ pc' = [pc EXCEPT ![p] = "done"]
    /\ UNCHANGED <<variant, wireVars, routeVars, lifeResult, panic, eventCallback, lifeVars, gcrVars,
                   subVars, reqId, respChan, got, cb, tableVars, queueVars>>

\* case <-time.After(...): no token within the admission timeout, 503.
GateTimeout(p) ==
    /\ panic = ""
    /\ pc[p] = "gate"
    /\ SemFull
    /\ written' = WriteStatus(p, 503, NoId)
    /\ pc' = [pc EXCEPT ![p] = "done"]
    /\ UNCHANGED <<variant, wireVars, routeVars, lifeResult, panic, eventCallback, lifeVars, semVars, gcrVars, subVars,
                   reqId, respChan, got, cb, tableVars, queueVars>>

\* The deferred <-requestSemaphore: blocks while the channel is empty.
Release(p) ==
    /\ panic = ""
    /\ pc[p] = "release"
    /\ requestSemaphore > 0
    /\ requestSemaphore' = requestSemaphore - 1
    /\ pc' = [pc EXCEPT ![p] = "done"]
    /\ UNCHANGED <<variant, wireVars, routeVars, lifeResult, panic, eventCallback, lifeVars, gcrVars, subVars,
                   reqId, respChan, got, written, cb, tableVars, queueVars>>

\* Where a handler goes when its body is over.
AfterBody == IF HasSemaphore THEN "release" ELSE "done"

\* A faulty registration, against which the order of the steps is tested: the
\* handler goes on to the hand-off with its id and channel, and the channel
\* is not in pendingReqs by then.
RegisterAfterHandoff(p) ==
    /\ panic = ""
    /\ HasTable
    /\ pc[p] = "admitted"
    /\ requestIdSeq' = requestIdSeq + 1
    /\ reqId' = [reqId EXCEPT ![p] = requestIdSeq + 1]
    /\ pc' = [pc EXCEPT ![p] = "registered"]
    /\ UNCHANGED <<variant, wireVars, routeVars, lifeResult, panic, eventCallback, lifeVars, semVars, gcrVars, subVars,
                   respChan, got, written, cb, queueVars, pendingReqs>>

\* generateRequestId, make(chan ASGIResponse, 1), pendingReqs[requestId] = respChan.
Register(p) ==
    /\ panic = ""
    /\ HasTable
    /\ pc[p] = "admitted"
    /\ requestIdSeq' = requestIdSeq + 1
    /\ reqId' = [reqId EXCEPT ![p] = requestIdSeq + 1]
    /\ pendingReqs' = [pendingReqs EXCEPT ![requestIdSeq + 1] = p]
    /\ pc' = [pc EXCEPT ![p] = "registered"]
    /\ UNCHANGED <<variant, wireVars, routeVars, lifeResult, panic, eventCallback, lifeVars, semVars, gcrVars, subVars,
                   respChan, got, written, cb, queueVars>>

\* Pull variant: events = append(events, event), under eventsMu.
StoreEvent(p) ==
    /\ panic = ""
    /\ variant = PullV
    /\ pc[p] = "registered"
    /\ events' = Append(events, reqId[p])
    /\ pc' = [pc EXCEPT ![p] = "waiting"]
    /\ UNCHANGED <<variant, wireVars, routeVars, lifeResult, panic, eventCallback, lifeVars, semVars, gcrVars, subVars,
                   reqId, respChan, got, written, cb, tableVars, eventsCh,
                   eventsCancelled, consVars>>

\* case response := <-respChan (a closed, empty channel yields the zero value).
ReceiveResponse(p) ==
    /\ panic = ""
    /\ HasTable
    /\ pc[p] = "waiting"
    /\ respChan[p].buf # <<>> \/ respChan[p].closed
    /\ IF respChan[p].buf # <<>>
       THEN /\ got' = [got EXCEPT ![p] = Head(respChan[p].buf)]
            /\ respChan' = [respChan EXCEPT ![p].buf = Tail(@)]
       ELSE /\ got' = [got EXCEPT ![p] = ZeroResponse]
            /\ UNCHANGED respChan
    /\ pc' = [pc EXCEPT ![p] = "recvd"]
    /\ UNCHANGED <<variant, wireVars, routeVars, lifeResult, panic, eventCallback, lifeVars, semVars, gcrVars, subVars,
                   reqId, written, cb, tableVars, queueVars>>

\* After the receive: delete(pendingReqs, requestId) under pendingMu, then the
\* response is written.
CleanupAndWrite(p) ==
    /\ panic = ""
    /\ HasTable
    /\ pc[p] = "recvd"
    /\ pendingReqs' = [pendingReqs EXCEPT ![reqId[p]] = 0]
    /\ written' = WriteResponse(p, got[p])
    /\ got' = [got EXCEPT ![p] = ZeroResponse]
    /\ pc' = [pc EXCEPT ![p] = AfterBody]
    /\ UNCHANGED <<variant, wireVars, routeVars, lifeResult, panic, eventCallback, lifeVars, semVars, gcrVars, subVars,
                   reqId, respChan, cb, requestIdSeq, queueVars>>

\* A faulty timeout branch, against which the expiry of the slot is tested:
\* it closes the channel and writes 504 but leaves the slot in pendingReqs.
ResponseTimeoutKeepingSlot(p) ==
    /\ panic = ""
    /\ HasTable
    /\ pc[p] = "waiting"
    /\ respChan' = [respChan EXCEPT ![p].closed = TRUE]
    /\ panic' = IF respChan[p].closed THEN "handleRequest: close of closed channel" ELSE ""
    /\ written' = WriteStatus(p, 504, NoId)
    /\ pc' = [pc EXCEPT ![p] = AfterBody]
    /\ UNCHANGED <<variant, wireVars, routeVars, lifeResult, eventCallback, lifeVars, semVars, gcrVars,
                   subVars, reqId, got, cb, tableVars, queueVars>>

\* A faulty timeout branch, against which the locality of a timeout is
\* tested: it empties the whole table instead of deleting its own slot.
ResponseTimeoutClearingTable(p) ==
    /\ panic = ""
    /\ HasTable
    /\ pc[p] = "waiting"
    /\ pendingReqs' = NoPending
    /\ respChan' = [respChan EXCEPT ![p].closed = TRUE]
    /\ panic' = IF respChan[p].closed THEN "handleRequest: close of closed channel" ELSE ""
    /\ written' = WriteStatus(p, 504, NoId)
    /\ pc' = [pc EXCEPT ![p] = AfterBody]
    /\ UNCHANGED <<variant, wireVars, routeVars, lifeResult, eventCallback, lifeVars, semVars, gcrVars,
                   subVars, reqId, got, cb, requestIdSeq, queueVars>>

\* case <-time.After(requestTimeout): delete the slot and close the channel
\* under pendingMu, then 504.
ResponseTimeout(p) ==
    /\ panic = ""
    /\ HasTable
    /\ pc[p] = "waiting"
    /\ pendingReqs' = [pendingReqs EXCEPT ![reqId[p]] = 0]
    /\ respChan' = [respChan EXCEPT ![p].closed = TRUE]
    /\ panic' = IF respChan[p].closed THEN "handleRequest: close of closed channel" ELSE ""
    /\ written' = WriteStatus(p, 504, NoId)
    /\ pc' = [pc EXCEPT ![p] = AfterBody]
    /\ UNCHANGED <<variant, wireVars, routeVars, lifeResult, eventCallback, lifeVars, semVars, gcrVars, subVars,
                   reqId, got, cb, requestIdSeq, queueVars>>

----------------------------------------------------------------------------
(* SubmitResponse, called by the external side with any payload.           *)

\* A payload that does not parse, one naming an id that was never generated,
\* and one for each id generated so far.
Payloads ==
    {InvalidResult} \cup {Response(r, st) : r \in NoId..requestIdSeq, st \in Statuses}

\* Two faulty lookups, against which the properties of the correlation table
\* are tested: one ignores the id and takes the oldest live slot, the other
\* falls back to the oldest live slot when the id has no entry.
LookupOldestSlot(rid) ==
    LET live == {r \in Ids : pendingReqs[r] # 0} IN
    IF live = {} THEN 0
    ELSE pendingReqs[CHOOSE r \in live : \A q \in live : r <= q]

LookupOrOldestSlot(rid) ==
    IF rid # NoId /\ pendingReqs[rid] # 0 THEN pendingReqs[rid] ELSE LookupOldestSlot(rid)

\* The lookup of a request id in pendingReqs (0: no entry).
LookupSlot(rid) == IF rid = NoId THEN 0 ELSE pendingReqs[rid]

\* json.Unmarshal, then the lookup in pendingReqs under pendingMu.  A call
\* that returns keeps the id it named and its result only.
SubmitLookup(s, payload) ==
    /\ panic = ""
    /\ HasTable
    /\ subPc[s] = "idle"
    /\ IF s = 1 THEN TRUE ELSE subPc[s - 1] # "idle"
    /\ IF payload.kind # "ok"
       THEN /\ subResult' = [subResult EXCEPT ![s] = "Error unmarshaling response"]
            /\ subPc' = [subPc EXCEPT ![s] = "done"]
            /\ UNCHANGED <<subChan, subResp, subId>>
       ELSE /\ subId' = [subId EXCEPT ![s] = payload.rid]
            /\ IF LookupSlot(payload.rid) = 0
               THEN /\ subResult' = [subResult EXCEPT ![s] = "No pending request with ID"]
                    /\ subPc' = [subPc EXCEPT ![s] = "done"]
                    /\ UNCHANGED <<subChan, subResp>>
               ELSE /\ subChan' = [subChan EXCEPT ![s] = LookupSlot(payload.rid)]
                    /\ subResp' = [subResp EXCEPT ![s] = payload]
                    /\ subPc' = [subPc EXCEPT ![s] = "send"]
                    /\ UNCHANGED subResult
    /\ UNCHANGED <<variant, wireVars, routeVars, lifeResult, panic, eventCallback, lifeVars, semVars, gcrVars,
                   reqVars, tableVars, queueVars>>

\* respChan <- response, outside the lock: panics on a closed channel, blocks
\* while the one-place buffer is full.
SubmitSend(s) ==
    /\ panic = ""
    /\ subPc[s] = "send"
    /\ LET p == subChan[s] IN
       IF respChan[p].closed
       THEN /\ panic' = "SubmitResponse: send on closed channel"
            /\ UNCHANGED <<respChan, subPc, subResult, subResp, subChan>>
       ELSE /\ Len(respChan[p].buf) < 1
            /\ respChan' = [respChan EXCEPT ![p].buf = Append(@, subResp[s])]
            /\ subResult' = [subResult EXCEPT ![s] = "Response submitted successfully"]
            /\ subPc' = [subPc EXCEPT ![s] = "done"]
            /\ subResp' = [subResp EXCEPT ![s] = ZeroResponse]
            /\ subChan' = [subChan EXCEPT ![s] = 0]
            /\ UNCHANGED panic
    /\ UNCHANGED <<variant, wireVars, routeVars, lifeResult, eventCallback, lifeVars, semVars, gcrVars, subId,
                   pc, reqId, got, written, cb, tableVars, queueVars>>

----------------------------------------------------------------------------
(* GetEvents of the pull variant: the whole list, under eventsMu.          *)

\* The events of a returned batch are counted as fetched.
Fetch(batch) ==
    [i \in Ids |-> fetched[i] + Cardinality({k \in 1..Len(batch) : batch[k] = i})]

GetEventsPull ==
    /\ panic = ""
    /\ variant = PullV
    /\ fetched' = Fetch(events)
    /\ events' = <<>>
    /\ UNCHANGED <<variant, wireVars, routeVars, lifeResult, panic, eventCallback, lifeVars, semVars, gcrVars, subVars,
                   reqVars, tableVars, eventsCh, eventsCancelled, consPc, consBatch,
                   consGen, consI, staleCh>>

----------------------------------------------------------------------------
(* Callbacks: the direct variant runs the callback on a goroutine of its   *)
(* own and races it with a watchdog; the hybrid variant calls it on the    *)
(* handler's goroutine.                                                    *)

\* RegisterEventCallback(callback): any pointer, NULL (0) included.
RegisterEventCallback(c) ==
    /\ panic = ""
    /\ variant \in {DirectV, HybridV}
    /\ eventCallback' = c
    /\ UNCHANGED <<variant, wireVars, routeVars, lifeResult, panic, lifeVars, semVars, gcrVars, subVars,
                   reqVars, tableVars, queueVars>>

\* What the external handler can return for the event of request p.
CallbackResults(p) ==
    {NullResult, EmptyResult, InvalidResult}
        \cup {Response(r, st) : r \in {NoId, reqId[p]}, st \in Statuses}

\* Direct variant, after the gate: callback := eventCallback; 500 when nil,
\* else generateRequestId, the event, and go func() { ... }().
CheckCallback(p) ==
    /\ panic = ""
    /\ variant = DirectV
    /\ pc[p] = "admitted"
    /\ IF eventCallback = 0
       THEN /\ written' = WriteStatus(p, 500, NoId)
            /\ pc' = [pc EXCEPT ![p] = "release"]
            /\ UNCHANGED <<requestIdSeq, reqId, cb>>
       ELSE /\ requestIdSeq' = requestIdSeq + 1
            /\ reqId' = [reqId EXCEPT ![p] = requestIdSeq + 1]
            /\ cb' = [cb EXCEPT ![p] = "running"]
            /\ pc' = [pc EXCEPT ![p] = "waiting"]
            /\ UNCHANGED written
    /\ UNCHANGED <<variant, wireVars, routeVars, lifeResult, panic, eventCallback, lifeVars, semVars, gcrVars, subVars,
                   respChan, got, pendingReqs, queueVars>>

\* The callback goroutine: result := callEventCallback(...); responseChan <- result.
\* The send panics when the handler has closed the channel.
CallbackFinish(p, result) ==
    /\ panic = ""
    /\ variant = DirectV
    /\ cb[p] = "running"
    /\ IF respChan[p].closed
       THEN /\ panic' = "callback: send on closed channel"
            /\ UNCHANGED <<respChan, cb>>
       ELSE /\ respChan' = [respChan EXCEPT ![p].buf = Append(@, result)]
            /\ cb' = [cb EXCEPT ![p] = "done"]
            /\ UNCHANGED panic
    /\ UNCHANGED <<variant, wireVars, routeVars, lifeResult, eventCallback, lifeVars, semVars, gcrVars, subVars,
                   pc, reqId, got, written, tableVars, queueVars>>

\* case cResponseJSON = <-responseChan, and the checks that follow it: nil
\* (the channel is closed, 500), "" (500), unparsable (500), else writeResponse.
ReceiveCallback(p) ==
    /\ panic = ""
    /\ variant = DirectV
    /\ pc[p] = "waiting"
    /\ respChan[p].buf # <<>>
    /\ LET result == Head(respChan[p].buf) IN
       /\ respChan' = [respChan EXCEPT ![p] =
                          [buf |-> Tail(@.buf), closed |-> result.kind = "null"]]
       /\ written' = IF result.kind = "ok"
                     THEN WriteResponse(p, result)
                     ELSE WriteStatus(p, 500, NoId)
    /\ pc' = [pc EXCEPT ![p] = "release"]
    /\ UNCHANGED <<variant, wireVars, routeVars, lifeResult, panic, eventCallback, lifeVars, semVars, gcrVars, subVars,
                   reqId, got, cb, tableVars, queueVars>>

\* case <-timeoutChan: close(responseChan), 504, return; the callback
\* goroutine is left running.
WatchdogClose(ch) == [ch EXCEPT !.closed = TRUE]

Watchdog(p) ==
    /\ panic = ""
    /\ variant = DirectV
    /\ pc[p] = "waiting"
    /\ respChan' = [respChan EXCEPT ![p] = WatchdogClose(@)]
    /\ written' = WriteStatus(p, 504, NoId)
    /\ pc' = [pc EXCEPT ![p] = "release"]
    /\ UNCHANGED <<variant, wireVars, routeVars, lifeResult, panic, eventCallback, lifeVars, semVars, gcrVars, subVars,
                   reqId, got, cb, tableVars, queueVars>>

\* Hybrid variant, after the slot is registered: callback := eventCallback
\* under eventCallbackMu; the callback is called on the handler's goroutine.
ReadCallback(p) ==
    /\ panic = ""
    /\ variant = HybridV
    /\ pc[p] = "registered"
    /\ IF eventCallback = 0
       THEN /\ pc' = [pc EXCEPT ![p] = "waiting"]
       ELSE /\ pc' = [pc EXCEPT ![p] = "calling"]
    /\ UNCHANGED <<variant, wireVars, routeVars, lifeResult, panic, eventCallback, lifeVars, semVars, gcrVars, subVars,
                   reqId, respChan, got, written, cb, tableVars, queueVars>>

\* The callback returned: a response that parses is written at once and the
\* slot deleted; anything else sends the handler to wait on its channel.
CallbackReturn(p, result) ==
    /\ panic = ""
    /\ variant = HybridV
    /\ pc[p] = "calling"
    /\ IF result.kind = "ok"
       THEN /\ written' = WriteResponse(p, result)
            \* the handler's panic on an invalid status skips the delete
            /\ pendingReqs' = IF ValidStatus(result.status)
                               THEN [pendingReqs EXCEPT ![reqId[p]] = 0]
                               ELSE pendingReqs
            /\ pc' = [pc EXCEPT ![p] = "release"]
       ELSE /\ pc' = [pc EXCEPT ![p] = "waiting"]
            /\ UNCHANGED <<written, pendingReqs>>
    /\ UNCHANGED <<variant, wireVars, routeVars, lifeResult, panic, eventCallback, lifeVars, semVars, gcrVars, subVars,
                   reqId, respChan, got, cb, requestIdSeq, queueVars>>

----------------------------------------------------------------------------
(* Routed variant: one handler per pattern in globalMux, each a closure     *)
(* over the callback it was registered with.                               *)

\* RegisterEventCallback(path, callback): globalMux.HandleFunc(pathStr, ...).
\* http.ServeMux panics when the pattern is registered already; the panic
\* is raised on the caller's thread, in the exported function.
RegisterRoute(path, callback) ==
    /\ panic = ""
    /\ variant = RoutedV
    /\ IF mux[path] # NoHandler
       THEN /\ panic' = "http: multiple registrations"
            /\ UNCHANGED mux
       ELSE /\ mux' = [mux EXCEPT ![path] = callback]
            /\ UNCHANGED panic
    /\ UNCHANGED <<variant, wireVars, route, lifeResult, eventCallback, lifeVars, semVars, gcrVars,
                   subVars, reqVars, tableVars, queueVars>>

\* A request for a path reaches globalMux: a pattern nobody registered is
\* answered 404 by the mux itself, any other goes to the pattern's handler.
Dispatch(p, path) ==
    /\ panic = ""
    /\ variant = RoutedV
    /\ server
    /\ accepting
    /\ pc[p] = "idle"
    /\ IF p = 1 THEN TRUE ELSE pc[p - 1] # "idle"
    /\ IF mux[path] = NoHandler
       THEN /\ written' = WriteStatus(p, 404, NoId)
            /\ pc' = [pc EXCEPT ![p] = "done"]
            /\ UNCHANGED route
       ELSE /\ route' = [route EXCEPT ![p] = path]
            /\ pc' = [pc EXCEPT ![p] = "gate"]
            /\ UNCHANGED written
    /\ UNCHANGED <<variant, wireVars, mux, lifeResult, panic, eventCallback, lifeVars, semVars, gcrVars,
                   subVars, reqId, respChan, got, cb, tableVars, queueVars>>

\* After the gate: 404 when the handler was registered with a NULL callback,
\* else generateRequestId, the event, and go func() { ... }().
CheckRoute(p) ==
    /\ panic = ""
    /\ variant = RoutedV
    /\ pc[p] = "admitted"
    /\ IF mux[route[p]] = NullCallback
       THEN /\ written' = WriteStatus(p, 404, NoId)
            /\ pc' = [pc EXCEPT ![p] = "release"]
            /\ UNCHANGED <<requestIdSeq, reqId, cb>>
       ELSE /\ requestIdSeq' = requestIdSeq + 1
            /\ reqId' = [reqId EXCEPT ![p] = requestIdSeq + 1]
            /\ cb' = [cb EXCEPT ![p] = "running"]
            /\ pc' = [pc EXCEPT ![p] = "waiting"]
            /\ UNCHANGED written
    /\ UNCHANGED <<variant, wireVars, routeVars, lifeResult, panic, eventCallback, lifeVars, semVars,
                   gcrVars, subVars, respChan, got, pendingReqs, queueVars>>

\* What call_event_callback can return: NULL or a response structure.
RouteResults == {NullResult} \cup {Response(NoId, st) : st \in Statuses}

\* The callback goroutine: responseChan <- result.  The channel has room for
\* one value and is never closed.
RouteCallbackFinish(p, result) ==
    /\ panic = ""
    /\ variant = RoutedV
    /\ cb[p] = "running"
    /\ respChan' = [respChan EXCEPT ![p].buf = Append(@, result)]
    /\ cb' = [cb EXCEPT ![p] = "done"]
    /\ UNCHANGED <<variant, wireVars, routeVars, lifeResult, panic, eventCallback, lifeVars, semVars,
                   gcrVars, subVars, pc, reqId, got, written, tableVars, queueVars>>

\* case cResponse = <-responseChan: nil gives 500, else writeResponseFromC.
RouteReceive(p) ==
    /\ panic = ""
    /\ variant = RoutedV
    /\ pc[p] = "waiting"
    /\ respChan[p].buf # <<>>
    /\ LET result == Head(respChan[p].buf) IN
       /\ respChan' = [respChan EXCEPT ![p].buf = Tail(@)]
       /\ written' = IF result.kind = "ok"
                     THEN WriteResponse(p, result)
                     ELSE WriteStatus(p, 500, NoId)
    /\ pc' = [pc EXCEPT ![p] = "release"]
    /\ UNCHANGED <<variant, wireVars, routeVars, lifeResult, panic, eventCallback, lifeVars, semVars,
                   gcrVars, subVars, reqId, got, cb, tableVars, queueVars>>

\* case <-timeoutChan: 504 and return; the channel stays open.
RouteWatchdog(p) ==
    /\ panic = ""
    /\ variant = RoutedV
    /\ pc[p] = "waiting"
    /\ written' = WriteStatus(p, 504, NoId)
    /\ pc' = [pc EXCEPT ![p] = "release"]
    /\ UNCHANGED <<variant, wireVars, routeVars, lifeResult, panic, eventCallback, lifeVars, semVars,
                   gcrVars, subVars, reqId, respChan, got, cb, tableVars, queueVars>>

----------------------------------------------------------------------------
(* Push variant: the hand-off into eventsCh and GetEvents.                 *)

\* select { case eventsCh <- event: ... default: ... }
Enqueue(p) ==
    /\ panic = ""
    /\ variant = PushV
    /\ pc[p] = "registered"
    /\ IF Len(eventsCh) < EventsCap
       THEN /\ eventsCh' = Append(eventsCh, reqId[p])
            /\ pc' = [pc EXCEPT ![p] = "waiting"]
       ELSE /\ pc' = [pc EXCEPT ![p] = "evict"]
            /\ UNCHANGED eventsCh
    /\ UNCHANGED <<variant, wireVars, routeVars, lifeResult, panic, eventCallback, lifeVars, semVars, gcrVars, subVars,
                   reqId, respChan, got, written, cb, tableVars, events,
                   eventsCancelled, consVars>>

\* A faulty eviction, against which the overflow policy is tested: the oldest
\* event is removed and the handler's own event is not sent again.
EvictAndGiveUp(p) ==
    /\ panic = ""
    /\ variant = PushV
    /\ pc[p] = "evict"
    /\ eventsCh' = IF eventsCh # <<>> THEN Tail(eventsCh) ELSE eventsCh
    /\ pc' = [pc EXCEPT ![p] = "waiting"]
    /\ UNCHANGED <<variant, wireVars, routeVars, lifeResult, panic, eventCallback, lifeVars, semVars,
                   gcrVars, subVars, reqId, respChan, got, written, cb, tableVars, events,
                   eventsCancelled, consVars>>

\* The inner select: case <-eventsCh removes the oldest event; default (the
\* channel is empty by now) gives the event up.
Evict(p) ==
    /\ panic = ""
    /\ variant = PushV
    /\ pc[p] = "evict"
    /\ IF eventsCh # <<>>
       THEN /\ eventsCh' = Tail(eventsCh)
            /\ pc' = [pc EXCEPT ![p] = "resend"]
       ELSE /\ pc' = [pc EXCEPT ![p] = "waiting"]
            /\ UNCHANGED eventsCh
    /\ UNCHANGED <<variant, wireVars, routeVars, lifeResult, panic, eventCallback, lifeVars, semVars, gcrVars, subVars,
                   reqId, respChan, got, written, cb, tableVars, events,
                   eventsCancelled, consVars>>

\* eventsCh <- event // Try again: a plain send, which waits for room.
Resend(p) ==
    /\ panic = ""
    /\ variant = PushV
    /\ pc[p] = "resend"
    /\ Len(eventsCh) < EventsCap
    /\ eventsCh' = Append(eventsCh, reqId[p])
    /\ pc' = [pc EXCEPT ![p] = "waiting"]
    /\ UNCHANGED <<variant, wireVars, routeVars, lifeResult, panic, eventCallback, lifeVars, semVars, gcrVars, subVars,
                   reqId, respChan, got, written, cb, tableVars, events,
                   eventsCancelled, consVars>>

\* The context a blocked GetEvents call selects on is cancelled when
\* StopServer has cancelled it or a later StartServer has replaced (and
\* cancelled) it.
ConsCancelled(c) == consGen[c] < starts \/ eventsCancelled

\* A GetEvents call that waits in its select on a channel that StartServer
\* has replaced since.
OnStale(c) == consPc[c] = "blocked" /\ consGen[c] < starts

\* The channel a GetEvents call in its select receives from: the one eventsCh
\* named when the select was entered.
ConsChan(c) == IF OnStale(c) THEN staleCh[consGen[c]] ELSE eventsCh

\* GetEvents, fast path: eventsContext.Err() != nil returns "[]"; otherwise
\* the call goes on to its select.
GetEventsBegin(c) ==
    /\ panic = ""
    /\ variant = PushV
    /\ consPc[c] = "idle"
    /\ consPc' = [consPc EXCEPT ![c] = IF eventsCancelled THEN "idle" ELSE "select"]
    /\ consBatch' = [consBatch EXCEPT ![c] = <<>>]
    /\ UNCHANGED <<variant, wireVars, routeVars, lifeResult, panic, eventCallback, lifeVars, semVars, gcrVars, subVars,
                   reqVars, tableVars, events, eventsCh, eventsCancelled, consGen, consI,
                   fetched, staleCh>>

\* The select is entered with no event in the channel and the context not
\* cancelled: the call blocks on the channel and context that the globals
\* name now.
GetEventsBlock(c) ==
    /\ panic = ""
    /\ consPc[c] = "select"
    /\ eventsCh = <<>>
    /\ ~eventsCancelled
    /\ consPc' = [consPc EXCEPT ![c] = "blocked"]
    /\ consGen' = [consGen EXCEPT ![c] = starts]
    /\ UNCHANGED <<variant, wireVars, routeVars, lifeResult, panic, eventCallback, lifeVars, semVars,
                   gcrVars, subVars, reqVars, tableVars, events, eventsCh, eventsCancelled,
                   consBatch, consI, fetched, staleCh>>

\* A faulty first receive, against which the single hand-off is tested: it
\* reads the event at the head of the channel and leaves it there.
GetEventsFirstPeeking(c) ==
    /\ panic = ""
    /\ consPc[c] \in {"select", "blocked"}
    /\ ConsChan(c) # <<>>
    /\ consBatch' = [consBatch EXCEPT ![c] = <<Head(ConsChan(c))>>]
    /\ consPc' = [consPc EXCEPT ![c] = "more"]
    /\ consI' = [consI EXCEPT ![c] = 0]
    /\ UNCHANGED <<variant, wireVars, routeVars, lifeResult, panic, eventCallback, lifeVars, semVars,
                   gcrVars, subVars, reqVars, tableVars, events, eventsCh, eventsCancelled,
                   consGen, fetched, staleCh>>

\* case event := <-eventsCh: chosen at the entry of the select when an event is
\* there (whatever else is ready), or by a blocked call that an event woke.
\* A receive takes the event out of the channel it receives from.
GetEventsFirst(c) ==
    /\ panic = ""
    /\ consPc[c] \in {"select", "blocked"}
    /\ ConsChan(c) # <<>>
    /\ consBatch' = [consBatch EXCEPT ![c] = <<Head(ConsChan(c))>>]
    /\ eventsCh' = IF OnStale(c) THEN eventsCh ELSE Tail(eventsCh)
    /\ staleCh' = IF OnStale(c)
                  THEN [staleCh EXCEPT ![consGen[c]] =
                          IF \E d \in Cons \ {c} : OnStale(d) /\ consGen[d] = consGen[c]
                          THEN Tail(@) ELSE <<>>]
                  ELSE staleCh
    /\ consPc' = [consPc EXCEPT ![c] = "more"]
    /\ consI' = [consI EXCEPT ![c] = 0]
    /\ UNCHANGED <<variant, wireVars, routeVars, lifeResult, panic, eventCallback, lifeVars, semVars,
                   gcrVars, subVars, reqVars, tableVars, events, eventsCancelled,
                   consGen, fetched>>

\* One iteration of the loop of non-blocking receives, on the channel that
\* eventsCh names now (the break leaves the select only, so an empty channel
\* does not end the loop).
GetEventsMore(c) ==
    /\ panic = ""
    /\ consPc[c] = "more"
    /\ consI[c] < BatchSize - 1
    /\ consI' = [consI EXCEPT ![c] = @ + 1]
    /\ IF eventsCh # <<>>
       THEN /\ consBatch' = [consBatch EXCEPT ![c] = Append(@, Head(eventsCh))]
            /\ eventsCh' = Tail(eventsCh)
       ELSE UNCHANGED <<consBatch, eventsCh>>
    /\ UNCHANGED <<variant, wireVars, routeVars, lifeResult, panic, eventCallback, lifeVars, semVars, gcrVars, subVars,
                   reqVars, tableVars, events, eventsCancelled, consPc, consGen, fetched,
                   staleCh>>

\* The batch is marshalled and returned.
GetEventsReturn(c) ==
    /\ panic = ""
    /\ consPc[c] = "more"
    /\ consI[c] = BatchSize - 1
    /\ fetched' = Fetch(consBatch[c])
    /\ consPc' = [consPc EXCEPT ![c] = "idle"]
    /\ consI' = [consI EXCEPT ![c] = 0]
    /\ UNCHANGED <<variant, wireVars, routeVars, lifeResult, panic, eventCallback, lifeVars, semVars, gcrVars, subVars,
                   reqVars, tableVars, events, eventsCh, eventsCancelled, consBatch, consGen,
                   staleCh>>

\* case <-time.After(5 * time.Second): return "[]".  The timer is started when
\* the select is entered, and it ends a call that nothing else has woken.
GetEventsTimeout(c) ==
    /\ panic = ""
    /\ consPc[c] = "blocked"
    /\ ConsChan(c) = <<>>
    /\ consPc' = [consPc EXCEPT ![c] = "idle"]
    /\ UNCHANGED <<variant, wireVars, routeVars, lifeResult, panic, eventCallback, lifeVars, semVars, gcrVars, subVars,
                   reqVars, tableVars, events, eventsCh, eventsCancelled, consBatch,
                   consGen, consI, fetched, staleCh>>

\* case <-eventsContext.Done(): return "[]": chosen at the entry of the select
\* when the context is cancelled by then (whatever else is ready), or by a
\* blocked call that the cancellation woke.
GetEventsStopped(c) ==
    /\ panic = ""
    /\ \/ consPc[c] = "select" /\ eventsCancelled
       \/ consPc[c] = "stopped"
    /\ consPc' = [consPc EXCEPT ![c] = "idle"]
    /\ UNCHANGED <<variant, wireVars, routeVars, lifeResult, panic, eventCallback, lifeVars, semVars, gcrVars, subVars,
                   reqVars, tableVars, events, eventsCh, eventsCancelled, consBatch,
                   consGen, consI, fetched, staleCh>>

----------------------------------------------------------------------------
Lifecycle == StartServer \/ StopServerBegin \/ ShutdownOk \/ ShutdownTimeout
Drain == StopFill \/ StopFinish
Gcr == GcrBegin \/ GcrCount \/ GcrCounted \/ GcrReturn \/ GcrDone
\* With no more requests than tokens and no GetConcurrentRequests call the
\* gate is never full; GateFull belongs to the specifications where it is.
Gate == \E p \in Req : Acquire(p) \/ Release(p)
GateFull == \E p \in Req : GateTimeout(p)
Slot == \E p \in Req : Register(p) \/ ReceiveResponse(p) \/ CleanupAndWrite(p)
                          \/ ResponseTimeout(p)
Submit == \/ \E s \in RetrySub, payload \in Payloads : SubmitLookup(s, payload)
          \/ \E s \in RetrySub : SubmitSend(s)

NextPull ==
    \/ Lifecycle \/ Drain \/ Gate \/ Slot \/ Submit
    \/ \E p \in SlotReq : Arrive(p)
    \/ \E p \in Req : StoreEvent(p)
    \/ GetEventsPull

InitPull == Init /\ variant = PullV
SpecPull == InitPull /\ [][NextPull]_vars

Callbacks == \E c \in {0, 1} : RegisterEventCallback(c)

NextDirect ==
    \/ Lifecycle \/ Drain \/ Gate \/ Callbacks
    \/ \E p \in SlotReq : Arrive(p)
    \/ \E p \in Req : CheckCallback(p) \/ ReceiveCallback(p) \/ Watchdog(p)
    \/ \E p \in Req : \E result \in CallbackResults(p) : CallbackFinish(p, result)

InitDirect == Init /\ variant = DirectV
SpecDirect == InitDirect /\ [][NextDirect]_vars

NextHybrid ==
    \/ Lifecycle \/ Drain \/ Gate \/ Slot \/ Submit \/ Callbacks
    \/ \E p \in SlotReq : Arrive(p)
    \/ \E p \in Req : ReadCallback(p)
    \/ \E p \in Req : \E result \in CallbackResults(p) : CallbackReturn(p, result)

\* The admission gate of the direct variant under GetConcurrentRequests calls:
\* MaxReq requests, and no callback is ever registered, so that a handler's
\* body is the "No event handler registered" exit.
NextGate ==
    \/ Lifecycle \/ Drain \/ Gcr \/ Gate \/ GateFull
    \/ \E p \in Req : Arrive(p) \/ CheckCallback(p)

SpecGate == InitDirect /\ [][NextGate]_vars

InitHybrid == Init /\ variant = HybridV
SpecHybrid == InitHybrid /\ [][NextHybrid]_vars

\* One GetEvents call of consumer c, and the calls of the one consumer loop
\* of run_server.
GetEventsCall(c) ==
    \/ GetEventsBegin(c) \/ GetEventsBlock(c) \/ GetEventsFirst(c) \/ GetEventsMore(c)
    \/ GetEventsReturn(c) \/ GetEventsTimeout(c) \/ GetEventsStopped(c)
GetEvents == GetEventsCall(1)

NextPush ==
    \/ Lifecycle \/ Slot \/ Submit \/ GetEvents
    \/ \E p \in SlotReq : Arrive(p)
    \/ \E p \in Req : Enqueue(p) \/ Evict(p) \/ Resend(p)

InitPush == Init /\ variant = PushV
SpecPush == InitPush /\ [][NextPush]_vars

\* The hand-off of the push variant with MaxReq producers and a consumer; the
\* external side fetches events and never submits a response.
NextHandoff ==
    \/ Lifecycle \/ GetEvents
    \/ \E p \in Req : Register(p) \/ ResponseTimeout(p)
    \/ \E p \in Req : Arrive(p) \/ Enqueue(p) \/ Evict(p) \/ Resend(p)

SpecHandoff == InitPush /\ [][NextHandoff]_vars

\* The three variants with a correlation table side by side: the handlers of
\* MaxSlotReq requests against SubmitResponse calls with arbitrary payloads,
\* restarts and stops.  SubmitResponse takes any payload whether or not the
\* event was fetched, so the consumers of events are left out here.
NextQueues ==
    \/ Lifecycle \/ Drain \/ Gate \/ Slot \/ Submit \/ Callbacks
    \/ \E p \in SlotReq : Arrive(p)
    \/ \E p \in Req : StoreEvent(p) \/ ReadCallback(p)
    \/ \E p \in Req : \E result \in CallbackResults(p) : CallbackReturn(p, result)
    \/ \E p \in Req : Enqueue(p) \/ Evict(p) \/ Resend(p)

InitQueues == Init /\ variant \in {PullV, HybridV, PushV}
SpecQueues == InitQueues /\ [][NextQueues]_vars

\* The overload scenario of the push variant: the requests arrive one after
\* another, each after the hand-off of the one before is over, and no
\* GetEvents call drains the buffer.  The server is started once.
ArriveInTurn(p) ==
    /\ \A q \in Req : pc[q] \notin {"admitted", "registered", "evict", "resend"}
    /\ Arrive(p)

NextOverload ==
    \/ StartServer \/ Slot \/ Submit
    \/ \E p \in Req : ArriveInTurn(p) \/ Enqueue(p) \/ Evict(p) \/ Resend(p)

SpecOverload == InitPush /\ [][NextOverload]_vars

\* The same with the steps a handler takes by itself made fair: its hand-off,
\* its receive, its cleanup and its 30 s timer.  What the external side
\* submits, and when, is left open.
FairOverload ==
    \A p \in Req :
        /\ WF_vars(Register(p)) /\ WF_vars(Enqueue(p))
        /\ WF_vars(Evict(p)) /\ WF_vars(Resend(p))
        /\ WF_vars(ReceiveResponse(p)) /\ WF_vars(CleanupAndWrite(p))
        /\ WF_vars(ResponseTimeout(p))

FairSpecOverload == SpecOverload /\ FairOverload

\* The admission gate of the pull and hybrid variants under more requests
\* than tokens: MaxReq requests against maxConcurrentRequests tokens, the
\* admitted ones holding their token until their 30 s timeout (or, in the
\* hybrid variant, until the callback answers).
NextFullGate ==
    \/ StartServer \/ Gate \/ GateFull \/ Callbacks
    \/ \E p \in Req : Arrive(p) \/ Register(p) \/ StoreEvent(p) \/ ReadCallback(p)
    \/ \E p \in Req : ResponseTimeout(p)
    \/ \E p \in Req : \E result \in CallbackResults(p) : CallbackReturn(p, result)

InitFullGate == Init /\ variant \in {PullV, HybridV}
SpecFullGate == InitFullGate /\ [][NextFullGate]_vars

\* The lifecycle of the pull and push variants: starts, stops, the calls
\* that are rejected because the server is already running or not running,
\* and around them requests, a SubmitResponse call, timeouts and consumers.
Rejected == StartServerAgain \/ StopServerIdle
SubmitOnce == \/ \E payload \in Payloads : SubmitLookup(1, payload)
              \/ SubmitSend(1)

NextLifecycle ==
    \/ Lifecycle \/ Drain \/ Rejected \/ Gate \/ Slot \/ SubmitOnce
    \/ \E p \in SlotReq : Arrive(p)
    \/ \E p \in Req : StoreEvent(p) \/ Enqueue(p) \/ Evict(p) \/ Resend(p)
    \/ GetEventsPull \/ GetEvents

InitLifecycle == Init /\ variant \in {PullV, PushV}
SpecLifecycle == InitLifecycle /\ [][NextLifecycle]_vars

\* The routed variant: registrations of callbacks (NULL included) for
\* MaxPaths patterns at any time, requests for any of the patterns.
Routes == \E path \in Paths, callback \in CallbackFns \cup {NullCallback} :
              RegisterRoute(path, callback)

NextRouted ==
    \/ Lifecycle \/ Drain \/ Gate \/ Routes
    \/ \E p \in SlotReq, path \in Paths : Dispatch(p, path)
    \/ \E p \in Req : CheckRoute(p) \/ RouteReceive(p) \/ RouteWatchdog(p)
    \/ \E p \in Req : \E result \in RouteResults : RouteCallbackFinish(p, result)

InitRouted == Init /\ variant = RoutedV
SpecRouted == InitRouted /\ [][NextRouted]_vars

\* The consumers of the pull and push variants against a backlog: MaxReq
\* requests, whose events stay in the buffer when their handlers time out,
\* and GetEvents calls at any time.  The server is started once.
NextBacklog ==
    \/ StartServer \/ Gate \/ GetEventsPull \/ GetEvents
    \/ \E p \in Req : Arrive(p) \/ Register(p) \/ ResponseTimeout(p)
    \/ \E p \in Req : StoreEvent(p) \/ Enqueue(p) \/ Evict(p) \/ Resend(p)

SpecBacklog == InitLifecycle /\ [][NextBacklog]_vars

----------------------------------------------------------------------------
(* Claims.                                                                 *)

\* The direct variant with the steps the program takes by itself made fair:
\* the handler's own steps, its timers and the steps of a StopServer call.
\* Whether the external side returns from the callback is left open.
FairDirect ==
    /\ \A p \in Req : WF_vars(Acquire(p)) /\ WF_vars(CheckCallback(p))
    /\ \A p \in Req : WF_vars(ReceiveCallback(p)) /\ WF_vars(Watchdog(p))
    /\ \A p \in Req : WF_vars(Release(p))
    /\ WF_vars(ShutdownOk \/ ShutdownTimeout) /\ WF_vars(StopFill \/ StopFinish)

FairSpecDirect == SpecDirect /\ FairDirect

\* The request handlers that have acquired a token and not yet released it.
Holders == {p \in Req : pc[p] \notin {"idle", "gate", "done"}}

\* C1: in every reachable state, also while GetConcurrentRequests, StartServer
\* and StopServer run concurrently with request handlers, at most
\* maxConcurrentRequests handlers hold an admission token.
C1_AtMostCapacityAdmitted == Cardinality(Holders) <= maxConcurrentRequests

\* C2: every request that acquired an admission token eventually has written
\* exactly one outcome and returned from its handler, whether or not the
\* callback ever returns.
C2_AdmittedEventuallyDone ==
    \A p \in Req : (pc[p] = "admitted") ~> (pc[p] = "done" /\ Len(written[p]) = 1)

\* C3: a SubmitResponse call that races the timeout branch of the waiting
\* handler never panics with a send on a closed channel.
C3_SubmitNeverPanics == panic # "SubmitResponse: send on closed channel"

\* The SubmitResponse calls for id r that returned success.
Successes(r) ==
    {s \in Sub : subPc[s] = "done" /\ subId[s] = r
                     /\ subResult[s] = "Response submitted successfully"}

\* C4: for any request id, at most one SubmitResponse call returns
\* "Response submitted successfully".
C4_AtMostOneSuccessPerId == \A r \in Ids : Cardinality(Successes(r)) <= 1

\* C5: when a StopServer call returns, every handler that was pending when it
\* was called has been woken: none is still blocked waiting on its slot.
C5_StopWakesPending ==
    [][(stopPc = "shutdown" /\ stopPc' # "shutdown")
          => \A p \in stopSaw : pc'[p] # "waiting"]_vars

\* C6: a response submitted with request id r is only received by the handler
\* that registered the slot for r: what sits in a handler's channel, what the
\* handler took from it and what it wrote from it carry the handler's own id.
C6_OnlyOwnResponses ==
    \A p \in Req :
        /\ \A k \in 1..Len(respChan[p].buf) : respChan[p].buf[k].rid = reqId[p]
        /\ (pc[p] = "recvd" /\ got[p].kind = "ok") => got[p].rid = reqId[p]
        /\ variant # HybridV =>
              \A k \in 1..Len(written[p]) : written[p][k].rid \in {NoId, reqId[p]}

\* Two requests are pending under different ids and one of them has received
\* a submitted response while the other still waits.
C6_Witness ==
    \E p, q \in Req :
        /\ p # q
        /\ pc[p] = "recvd" /\ got[p].kind = "ok"
        /\ pc[q] = "waiting" /\ reqId[q] # NoId /\ reqId[q] # reqId[p]

\* C7: every admitted request that has returned from its handler wrote
\* exactly one status line, and no handler ever writes more than one.
C7_ExactlyOneStatusLine ==
    \A p \in Req :
        /\ Len(written[p]) <= 1
        /\ pc[p] = "done" => Len(written[p]) = 1

SubmitErrors == {"Error unmarshaling response", "No pending request with ID"}

\* C8: a SubmitResponse call whose payload does not parse or names an id that
\* has no slot returns an error and leaves the correlation table, every
\* slot's channel, the event buffers and the admission semaphore unchanged;
\* only a payload that parsed and named a registered id goes on to the send.
C8_RejectedSubmitChangesNothing ==
    /\ [](\A s \in Sub : subPc[s] = "send" =>
              subResp[s].kind = "ok" /\ subId[s] \in 1..requestIdSeq)
    /\ [][\A s \in Sub :
            (subPc[s] = "idle" /\ subPc'[s] = "done")
               => /\ subResult'[s] \in SubmitErrors
                  /\ UNCHANGED <<pendingReqs, respChan, events, eventsCh,
                                 requestSemaphore>>]_vars

\* A call with an unparsable payload and a call naming an id that was never
\* registered have both returned their error while a request is pending.
C8_Witness ==
    /\ \E p \in Req : pc[p] = "waiting" /\ pendingReqs[reqId[p]] = p
    /\ \E s \in Sub : subPc[s] = "done" /\ subResult[s] = "Error unmarshaling response"
    /\ \E s \in Sub : /\ subPc[s] = "done" /\ subId[s] = NoId
                      /\ subResult[s] = "No pending request with ID"

\* C9: the return of a callback whose watchdog has fired does not panic.
C9_LateCallbackNeverPanics == panic # "callback: send on closed channel"

\* C10: the hand-off never has to wait: a handler about to put its event back
\* after an eviction finds room in the buffer.
C10_HandoffNeverBlocks ==
    \A p \in Req : pc[p] = "resend" => Len(eventsCh) < EventsCap

\* The requests whose hand-off is over, and whether one is in its hand-off.
HandedOff == {p \in Req : pc[p] \in {"waiting", "recvd", "done"}}
InHandoff == \E p \in Req : pc[p] \in {"admitted", "registered", "evict", "resend"}

\* The ids of the newest n of k events enqueued one after another (ids are
\* issued in the order of arrival, from 1).
NewestOf(k, n) == [i \in 1..n |-> k - n + i]
Smaller(a, b) == IF a <= b THEN a ELSE b

C12_EnqueuedEndsBy504 ==
    \A p \in Req :
        (variant = PushV /\ pc[p] = "waiting")
            ~> /\ pc[p] = "done"
               /\ pendingReqs[reqId[p]] = 0
               /\ \/ written[p] = <<[status |-> 504, rid |-> NoId]>>
                  \/ Successes(reqId[p]) # {}

\* C13: a handler that holds an admission token finds one to take back when
\* it leaves (its release does not block), and on a running server with no
\* handler, no GetConcurrentRequests call and no StopServer call in progress
\* the semaphore holds no token.
C13_ReleaseExactlyOnce ==
    /\ \A p \in Req : pc[p] = "release" => requestSemaphore > 0
    /\ (server /\ stopPc = "idle" /\ gcrPc = "idle" /\ \A p \in Req : ~InFlight(p))
          => requestSemaphore = 0

\* C14: a request whose token acquisition times out is answered with 503 and
\* goes no further: the step generates no request id, registers no slot,
\* appends no event, starts no callback and releases no token, and the
\* request never has an id, a slot or an event afterwards.
C14_GateTimeoutGoesNoFurther ==
    /\ [][\A p \in Req :
            (pc[p] = "gate" /\ pc'[p] = "done")
               => /\ written'[p] = <<[status |-> 503, rid |-> NoId]>>
                  /\ UNCHANGED <<requestIdSeq, reqId, pendingReqs, events, eventsCh,
                                 cb, requestSemaphore>>]_vars
    /\ [](\A p \in Req :
            (written[p] # <<>> /\ written[p][1].status = 503)
               => /\ pc[p] = "done"
                  /\ reqId[p] = NoId
                  /\ \A i \in Ids : pendingReqs[i] # p)

\* A request was turned away with 503 while maxConcurrentRequests others hold
\* their tokens and wait on their slots.
C14_Witness ==
    /\ \E p \in Req : pc[p] = "done" /\ written[p] = <<[status |-> 503, rid |-> NoId]>>
    /\ Cardinality({q \in Req : pc[q] = "waiting"}) = maxConcurrentRequests
    /\ requestSemaphore = maxConcurrentRequests

C16_StopTakesPrecedence ==
    [][eventsCancelled
         => \A c \in Cons : consBatch'[c] = consBatch[c] \/ consBatch'[c] = <<>>]_vars

\* What StartServer and StopServer work on: the server handle, the semaphore,
\* the correlation table, the event buffers, the cancellation context and the
\* handler registry, and with them the requests in flight and the consumer.
ServerState ==
    <<server, accepting, starts, requestSemaphore, pendingReqs, requestIdSeq, events,
      eventsCh, eventsCancelled, eventCallback, mux, reqVars, consVars>>

\* C17: a StartServer call that returns "Server is already running" leaves the
\* server handle, the semaphore, the correlation table, the event buffers and
\* the cancellation context as they were, and with them every request in
\* flight and every blocked consumer; the message is only returned while a
\* server is running.
C17_StartWhileRunningChangesNothing ==
    /\ [][(lifeResult' = "Server is already running" /\ lifeResult' # lifeResult)
             => UNCHANGED ServerState]_vars
    /\ [](lifeResult = "Server is already running" => server /\ starts > 0)

\* The call was rejected while a request waits on its slot and, in the push
\* variant, a consumer is blocked in GetEvents; in the pull variant, while a
\* token is held and an event is in the list.
C17_Witness ==
    /\ lifeResult = "Server is already running"
    /\ \E p \in Req : pc[p] = "waiting" /\ pendingReqs[reqId[p]] = p
    /\ \/ variant = PushV /\ consPc[1] = "blocked"
       \/ variant = PullV /\ requestSemaphore > 0 /\ events # <<>>

\* C18: a StartServer that succeeds leaves the correlation table empty, the
\* event buffer empty, the semaphore without tokens and the context not
\* cancelled, whatever the runs before left behind.
C18_StartIsClean ==
    [][(~server /\ server')
         => /\ pendingReqs' = NoPending
            /\ events' = <<>> /\ eventsCh' = <<>>
            /\ requestSemaphore' = 0
            /\ ~eventsCancelled'
            /\ lifeResult' = "Server started"]_vars

\* The second run has started clean although the first one left something:
\* a request of the first run ended whose event was never fetched, and (pull
\* variant) StopServer had filled the semaphore.
C18_Witness ==
    /\ server /\ starts = 2 /\ lifeResult = "Server started"
    /\ pendingReqs = NoPending /\ events = <<>> /\ eventsCh = <<>>
    /\ requestSemaphore = 0
    /\ \E p \in Req : pc[p] = "done" /\ reqId[p] # NoId /\ fetched[reqId[p]] = 0

\* C19: a StopServer call that returns "Server is not running" changes
\* nothing: semaphore, correlation table, event buffers, cancellation context
\* and handler registry stay as they were, so that calling it again changes
\* nothing either; the message is only returned while no server runs.
C19_StopWhileStoppedChangesNothing ==
    /\ [][(lifeResult' = "Server is not running" /\ lifeResult' # lifeResult)
             => UNCHANGED ServerState]_vars
    /\ [](lifeResult = "Server is not running" => ~server /\ stopPc = "idle")

\* The call was rejected after a run in which a request was served and at
\* whose end, in the pull variant, StopServer had filled the semaphore.
C19_Witness ==
    /\ lifeResult = "Server is not running"
    /\ starts > 0
    /\ \E p \in Req : pc[p] = "done"
    /\ variant = PullV => requestSemaphore = maxConcurrentRequests

\* C20: in the routed variant RegisterEventCallback for a path that already
\* has a handler succeeds and replaces it; the call never fails and never
\* ends the process.
C20_ReRegistrationNeverCrashes == panic # "http: multiple registrations"

\* C21: any two request ids that generateRequestId returned are different,
\* for concurrent callers and across StopServer/StartServer cycles: the
\* sequence counter never goes back, and every id handed out is below it.
C21_RequestIdsUnique ==
    /\ [](\A p, q \in Req : (p # q /\ reqId[p] # NoId) => reqId[p] # reqId[q])
    /\ [](\A p \in Req : reqId[p] <= requestIdSeq)
    /\ [][requestIdSeq' >= requestIdSeq]_vars

\* A request of the second run holds an id while a request of the first run,
\* which has ended, had been given another.
C21_Witness ==
    /\ server /\ starts = 2
    /\ \E p, q \in Req :
          /\ pc[p] = "done" /\ reqId[p] # NoId
          /\ pc[q] = "waiting" /\ reqId[q] # NoId /\ pendingReqs[reqId[q]] = q

\* What the timeout branch writes.
GatewayTimeout == <<[status |-> 504, rid |-> NoId]>>

\* C22: in the queue variants a handler that leaves its wait with no response
\* in its channel writes 504 and its slot is gone from pendingReqs, and every
\* SubmitResponse call for its id that starts afterwards returns the
\* unknown-request-id error.
C22_TimeoutExpiresSlot ==
    /\ [][\A p \in Req :
            (HasTable /\ pc[p] = "waiting" /\ pc'[p] # "waiting"
                /\ respChan[p].buf = <<>> /\ ~respChan[p].closed)
               => /\ written'[p] = GatewayTimeout
                  /\ pendingReqs'[reqId[p]] = 0]_vars
    /\ [][\A p \in Req, s \in Sub :
            (written[p] = GatewayTimeout /\ reqId[p] # NoId
                /\ subPc[s] = "idle" /\ subPc'[s] # "idle" /\ subId'[s] = reqId[p])
               => /\ subPc'[s] = "done"
                  /\ subResult'[s] = "No pending request with ID"]_vars

\* A request has timed out and a SubmitResponse call naming its id, made
\* afterwards, has returned the error while another request is pending.
C22_Witness ==
    \E p, q \in Req, s \in Sub :
        /\ written[p] = GatewayTimeout /\ reqId[p] # NoId
        /\ subPc[s] = "done" /\ subId[s] = reqId[p]
        /\ subResult[s] = "No pending request with ID"
        /\ pc[q] = "waiting" /\ reqId[q] # NoId /\ pendingReqs[reqId[q]] = q

\* The callback of request p has handed back a failure that the handler has
\* not taken yet: NULL, an empty string or a payload that does not parse.
FailureReturned(p) ==
    /\ variant \in {DirectV, RoutedV}
    /\ pc[p] = "waiting"
    /\ respChan[p].buf # <<>>
    /\ Head(respChan[p].buf).kind # "ok"

\* C23: in the direct-callback variants a callback that fails gives its
\* caller exactly one 500 and the handler goes on to release its token,
\* nothing of any other request changes, and the return of a callback never
\* ends the process.
C23_CallbackFailureGives500 ==
    /\ [][\A p \in Req :
            (FailureReturned(p) /\ pc'[p] # "waiting" /\ written'[p] # <<[status |-> 504, rid |-> NoId]>>)
               => /\ written'[p] = <<[status |-> 500, rid |-> NoId]>>
                  /\ pc'[p] = "release"
                  /\ \A q \in Req \ {p} :
                        /\ pc'[q] = pc[q] /\ written'[q] = written[q]
                        /\ respChan'[q] = respChan[q]]_vars
    /\ [][(\E p \in Req : cb[p] = "running") => panic' = ""]_vars

\* C24: GetConcurrentRequests always returns (its take-back loop finds a
\* token whenever it waits for one), what it reports is a number of handlers
\* that held a token during the call (0 when no request was ever admitted),
\* and once it has returned with no handler admitted and no StopServer under
\* way the semaphore is as empty as if it had not been called.
C24_SnapshotIsExact ==
    /\ (gcrPc = "return" /\ gcrI < gcrAvail) => requestSemaphore > 0
    /\ (gcrResult # -1 /\ Holders = {} /\ \A p \in Req : pc[p] \in {"idle", "gate"})
          => gcrResult = 0
    /\ (gcrPc = "idle" /\ server /\ stopPc = "idle" /\ Holders = {}) => requestSemaphore = 0

\* C25: the correlation table holds no stale entry: every id in pendingReqs
\* is the id of a request whose handler has not returned, and with no
\* handler in flight the table is empty.
C25_NoStaleSlots ==
    /\ \A i \in Ids :
          pendingReqs[i] # 0 => InFlight(pendingReqs[i]) /\ reqId[pendingReqs[i]] = i
    /\ (\A p \in Req : ~InFlight(p)) => pendingReqs = NoPending

\* C26: the response-timeout branch of a request is local: the step leaves
\* the slot, the channel and the outcome of every other request, the event
\* buffers and the semaphore as they were, so that every other pending
\* request is still registered under its id with its channel open.
C26_TimeoutIsLocal ==
    [][\A p \in Req :
          (HasTable /\ pc[p] = "waiting" /\ pc'[p] # "waiting"
              /\ written'[p] = GatewayTimeout)
             => /\ \A q \in Req \ {p} :
                      /\ pc'[q] = pc[q] /\ respChan'[q] = respChan[q]
                      /\ written'[q] = written[q] /\ got'[q] = got[q]
                      /\ reqId[q] # NoId => pendingReqs'[reqId[q]] = pendingReqs[reqId[q]]
                /\ UNCHANGED <<events, eventsCh, requestSemaphore, requestIdSeq>>]_vars

\* One request has timed out; another, pending at the time, has its response
\* in its channel.
C26_Witness ==
    \E p, q \in Req :
        /\ p # q
        /\ written[p] = GatewayTimeout /\ reqId[p] # NoId
        /\ pc[q] = "waiting" /\ pendingReqs[reqId[q]] = q
        /\ respChan[q].buf # <<>> /\ reqId[q] > reqId[p]

\* C27: a GetEvents call returns at most BatchSize events (the list of the
\* pull variant, the batch of the push variant), and a call of the push
\* variant never holds more than that.
C27_BatchBounded ==
    /\ [][fetched' # fetched
             => IF variant = PullV THEN Len(events) <= BatchSize
                ELSE \A c \in Cons : Len(consBatch[c]) <= BatchSize]_vars
    /\ [](\A c \in Cons : Len(consBatch[c]) <= BatchSize)

\* The consumer tasks of run_server_threaded call GetEvents concurrently with
\* each other and with the handlers that produce events.
GetEventsThreaded == \E c \in Cons : GetEventsCall(c)

NextThreaded ==
    \/ StartServer \/ Gate \/ GetEventsPull \/ GetEventsThreaded
    \/ \E p \in Req : Arrive(p) \/ Register(p) \/ ResponseTimeout(p)
    \/ \E p \in Req : StoreEvent(p) \/ Enqueue(p) \/ Evict(p) \/ Resend(p)

SpecThreaded == InitLifecycle /\ [][NextThreaded]_vars

\* How many times id i occurs in a sequence of event ids.
Count(seq, i) == Cardinality({k \in 1..Len(seq) : seq[k] = i})

\* How many copies of the event of request id i exist: in the list, in the
\* channel, in a replaced channel, in the batch a GetEvents call is building,
\* or in what GetEvents calls have returned.
Copies(i) ==
    LET chans == Count(events, i) + Count(eventsCh, i)
        stale == Cardinality({g \in DOMAIN staleCh : Count(staleCh[g], i) > 0})
        held == Cardinality({c \in Cons : consPc[c] = "more" /\ Count(consBatch[c], i) > 0})
    IN  chans + stale + held + fetched[i]

\* C28: an event is handed off at most once: GetEvents calls return each
\* event at most once, whatever the number of consumers, and the event a call
\* holds or has returned is in no buffer and in no other call's batch.
C28_HandedOffOnce ==
    /\ \A i \in Ids : fetched[i] <= 1 /\ Copies(i) <= 1
    /\ \A c \in Cons : \A i \in Ids : Count(consBatch[c], i) <= 1

\* Two GetEvents calls hold a batch each at the same time, after another call
\* has returned an event.
C28_Witness ==
    /\ consPc[1] = "more" /\ consPc[2] = "more"
    /\ consBatch[1] # <<>> /\ consBatch[2] # <<>>
    /\ \E i \in Ids : fetched[i] = 1

\* C29: in the push variant a slot is registered and an event enqueued only
\* by a request that holds an admission token, so that no more slots than
\* maxConcurrentRequests are pending at once.
C29_PushAdmissionBounded ==
    variant = PushV =>
        Cardinality({i \in Ids : pendingReqs[i] # 0}) <= maxConcurrentRequests

\* The request handlers that are between the registration of their slot and
\* the end of their wait for the response.
SlotHolders == {p \in Req : pc[p] \in {"registered", "evict", "resend", "waiting"}}

\* The slot is registered before the event is visible: the step that makes
\* the event of id i visible (in the list, the channel or a batch) finds the
\* slot of i in pendingReqs, and from its registration to the end of its wait
\* a handler has its slot, unless the cleanup of StopServer has closed it; so
\* a SubmitResponse for a fetched event never misses a slot that is yet to
\* be registered.
C30_SlotBeforeVisible ==
    /\ [][\A i \in Ids : (Copies(i) = 0 /\ Copies(i)' > 0)
                            => pendingReqs[i] # 0 /\ pendingReqs'[i] = pendingReqs[i]]_vars
    /\ [](\A p \in SlotHolders : pendingReqs[reqId[p]] = p \/ respChan[p].closed)

\* The token is acquired before the slot is registered: a handler that has
\* a slot or an id holds one of the tokens in the semaphore.
C30_TokenBeforeSlot ==
    [](\A p \in Req : (reqId[p] # NoId /\ pc[p] # "done")
                        => p \in Holders /\ requestSemaphore >= 1)

\* C30: within one request the steps are strictly ordered, in the pull and in
\* the push variant: the token is acquired before the slot is registered, and
\* the slot is registered before the event is visible to a consumer.
C30_StepsOrdered == C30_TokenBeforeSlot /\ C30_SlotBeforeVisible

----------------------------------------------------------------------------
(* One request through createASGIEvent, the handler and writeResponse.     *)

Min(a, b) == IF a < b THEN a ELSE b
SeqsUpTo(S, n) == UNION {[1..k -> S] : k \in 0..n}

\* The header keys as the client writes them, and http.CanonicalHeaderKey,
\* which net/http applies to the keys of r.Header and Header.Add to its key.
RawKeys == {"x-a", "X-B"}
CanonicalHeaderKey(k) ==
    CASE k = "x-a" -> "X-A"
      [] k = "host" -> "Host"
      [] OTHER -> k
HeaderValues == {"u", "v"}
Bytes == {0, 1}
\* The requests: per key the values of its header lines in order (none: the
\* key is absent), the Host line ("": none, as HTTP/1.0 allows) and a body
\* that fits the read buffer.
RawRequests ==
    [lines : [RawKeys -> SeqsUpTo(HeaderValues, MaxValues)],
     host : {"", "h"},
     body : SeqsUpTo(Bytes, ReadCap)]

\* r.Header: net/http keeps the header lines under their canonical keys and
\* moves the Host line to r.Host.
Header(r) ==
    [k \in {CanonicalHeaderKey(raw) : raw \in {x \in RawKeys : r.lines[x] # <<>>}} |->
        r.lines[CHOOSE raw \in RawKeys : CanonicalHeaderKey(raw) = k]]

RECURSIVE PairsOf(_, _)
\* for _, value := range values: one [name, value] pair per value, in order.
PairsOf(name, values) ==
    IF values = <<>> THEN <<>>
    ELSE <<<<name, Head(values)>>>> \o PairsOf(name, Tail(values))

RECURSIVE HeadersInOrder(_, _)
HeadersInOrder(h, order) ==
    IF order = <<>> THEN <<>>
    ELSE PairsOf(Head(order), h[Head(order)]) \o HeadersInOrder(h, Tail(order))

\* The orders in which range can visit the keys of a map.
Orders(keys) ==
    {o \in [1..Cardinality(keys) -> keys] : \A i, j \in DOMAIN o : i # j => o[i] # o[j]}

\* getHeadersList: the pairs of r.Header in the order of the iteration, then
\* the pair ["host", r.Host].
getHeadersList(r, order) ==
    HeadersInOrder(Header(r), order) \o <<<<"host", r.host>>>>

\* body = make([]byte, 1<<20); n, _ := r.Body.Read(body); if n > 0 { body =
\* body[:n] }: the one Read call returns n bytes, and with n = 0 the buffer
\* stays as it was made.
ReadBody(body, n) ==
    IF n > 0 THEN SubSeq(body, 1, n) ELSE [i \in 1..ReadCap |-> 0]

\* What one Read call can return for a body: nothing at the end of the
\* stream, otherwise at least one byte and at most what is there.
ReadCounts(body) == IF body = <<>> THEN {0} ELSE 1..Min(Len(body), ReadCap)

\* createASGIEvent.
createASGIEvent ==
    /\ wirePc = "request"
    /\ \E order \in Orders(DOMAIN Header(rawRequest)), n \in ReadCounts(rawRequest.body) :
          wireEvent' = [headers |-> getHeadersList(rawRequest, order),
                        body |-> ReadBody(rawRequest.body, n)]
    /\ wirePc' = "event"
    /\ UNCHANGED <<rawRequest, wireResponse, wireWritten>>
    /\ UNCHANGED <<variant, panic, eventCallback, lifeVars, semVars, gcrVars, subVars,
                   reqVars, tableVars, queueVars, routeVars, lifeResult>>

RECURSIVE ValuesOf(_, _)
\* The values that a list of pairs gives for one name, in the order of the list.
ValuesOf(pairs, name) ==
    IF pairs = <<>> THEN <<>>
    ELSE (IF Head(pairs)[1] = name THEN <<Head(pairs)[2]>> ELSE <<>>)
            \o ValuesOf(Tail(pairs), name)

\* The handler of the round trip: it answers with a status of its choice, the
\* headers of the event (a map from each name to its values) and the body of
\* the event.
EchoStatuses == {200, 404}
EchoHandler ==
    /\ wirePc = "event"
    /\ \E st \in EchoStatuses :
          wireResponse' =
              [status |-> st,
               headers |-> [name \in {wireEvent.headers[i][1] : i \in DOMAIN wireEvent.headers}
                               |-> ValuesOf(wireEvent.headers, name)],
               body |-> wireEvent.body]
    /\ wirePc' = "response"
    /\ UNCHANGED <<rawRequest, wireEvent, wireWritten>>
    /\ UNCHANGED <<variant, panic, eventCallback, lifeVars, semVars, gcrVars, subVars,
                   reqVars, tableVars, queueVars, routeVars, lifeResult>>

\* writeResponse: w.Header().Add(key, value) for every value of every key
\* (Add appends under the canonical key), WriteHeader(status), Write(body).
writeResponse ==
    /\ wirePc = "response"
    /\ wireWritten' =
          [status |-> wireResponse.status,
           headers |-> [k \in {CanonicalHeaderKey(name) : name \in DOMAIN wireResponse.headers} |->
                          wireResponse.headers[CHOOSE name \in DOMAIN wireResponse.headers :
                                                  CanonicalHeaderKey(name) = k]],
           body |-> wireResponse.body]
    /\ wirePc' = "written"
    /\ UNCHANGED <<rawRequest, wireEvent, wireResponse>>
    /\ UNCHANGED <<variant, panic, eventCallback, lifeVars, semVars, gcrVars, subVars,
                   reqVars, tableVars, queueVars, routeVars, lifeResult>>

NextRoundTrip == createASGIEvent \/ EchoHandler \/ writeResponse

InitRoundTrip ==
    /\ InitBridge /\ variant = DirectV
    /\ wirePc = "request"
    /\ rawRequest \in RawRequests
    /\ wireEvent = <<>>
    /\ wireResponse = <<>>
    /\ wireWritten = <<>>

SpecRoundTrip == InitRoundTrip /\ [][NextRoundTrip]_vars

\* The header lines of a request as a map from canonical key to the values
\* in order: its lines and its Host line.
RequestHeaders(r) ==
    [k \in DOMAIN Header(r) \cup (IF r.host = "" THEN {} ELSE {"Host"}) |->
        IF k = "Host" THEN <<r.host>> ELSE Header(r)[k]]

\* C31: round trip: when the handler echoes the event, the response written
\* has the status the handler gave, exactly the header key/value pairs of the
\* request, duplicates kept, and the body of the request.
C31_RoundTrip ==
    wirePc = "written" =>
        /\ wireWritten.status = wireResponse.status
        /\ wireWritten.headers = RequestHeaders(rawRequest)
        /\ wireWritten.body = rawRequest.body

\* C32: in the direct-callback variants the response written for a request is
\* one whose request_id is the id of the event handed to the callback: a
\* callback result with another or an empty request_id is not written.
C32_ResponseMatchesEvent ==
    (variant \in {DirectV, HybridV}) =>
        \A p \in Req : \A k \in DOMAIN written[p] :
            written[p][k].status = 200 => written[p][k].rid = reqId[p]

\* StopServer has returned "Server stopped" and no StartServer has followed.
Stopped == ~server /\ stopPc = "idle" /\ lifeResult = "Server stopped"

\* C33: after StopServer has returned "Server stopped" and before the next
\* StartServer the semaphore holds no token (looked at while no
\* GetConcurrentRequests call is between its two loops), so that a
\* GetConcurrentRequests call made then counts maxConcurrentRequests free
\* slots and reports 0 in use.
C33_StoppedGateIsClean ==
    (HasSemaphore /\ Stopped /\ gcrPc = "idle") => requestSemaphore = 0

\* C34: in the hybrid variant the response deadline also covers the call of
\* the callback: while the callback has not returned, the handler can take
\* its timeout branch (504, slot removed, then the release of the token), so
\* that a callback that never returns does not keep the request.
C34_DeadlineCoversCallback ==
    \A p \in Req :
        (variant = HybridV /\ panic = "" /\ pc[p] = "calling")
            => ENABLED ResponseTimeout(p)

\* SubmitResponse calls of any number for the requests of one server run of
\* the pull variant.
SubmitMany == \/ \E s \in Sub, payload \in Payloads : SubmitLookup(s, payload)
              \/ \E s \in Sub : SubmitSend(s)

NextSubmit ==
    \/ StartServer \/ Gate \/ Slot \/ SubmitMany
    \/ \E p \in SlotReq : Arrive(p) \/ StoreEvent(p)

SpecSubmit == InitPull /\ [][NextSubmit]_vars

\* A SubmitResponse call that can never finish its send: the buffer of the
\* channel is full, the channel is open, and its handler is past the select
\* that receives from it.
StuckSend(s) ==
    /\ subPc[s] = "send"
    /\ respChan[subChan[s]].buf # <<>>
    /\ ~respChan[subChan[s]].closed
    /\ pc[subChan[s]] \in {"release", "done"}

\* C35: every SubmitResponse call returns: no call is left in its send on a
\* slot's channel that nobody will receive from or close.
C35_SubmitAlwaysReturns == \A s \in Sub : ~StuckSend(s)

\* C36: StopServer is all-or-nothing.  The step in which it returns the error
\* of server.Shutdown changes neither server nor pendingReqs nor the slots'
\* channels, and after that return the server is still marked running and,
\* in the push variant, the events context is not cancelled; after the
\* return of "Server stopped" the server is marked not running and
\* pendingReqs is empty.
C36_StopAllOrNothing ==
    /\ [][(lifeResult' = "Error shutting down server" /\ lifeResult' # lifeResult)
             => UNCHANGED <<server, pendingReqs, respChan>>]_vars
    /\ [](lifeResult = "Error shutting down server"
             => server /\ (variant = PushV => ~eventsCancelled))
    /\ []((lifeResult = "Server stopped" /\ stopPc = "idle")
             => ~server /\ pendingReqs = NoPending)

\* C37: no slot channel is closed twice and no handler is woken by a closed
\* channel: neither the cleanup of StopServer nor the timeout branch of a
\* handler closes a closed channel (the close would panic), and a handler
\* leaves its wait by the receive branch only with a response that was sent,
\* never with the zero response of a closed channel.
C37_SlotClosedOnce ==
    /\ [](panic \notin {"StopServer: close of closed channel",
                        "handleRequest: close of closed channel"})
    /\ [][\A p \in Req : (pc[p] = "waiting" /\ pc'[p] = "recvd")
                              => respChan[p].buf # <<>> /\ ~respChan[p].closed]_vars

\* A StopServer call gave up while a handler waited, the handler then took
\* its timeout branch and closed its channel, and a second StopServer call
\* ran the cleanup and returned "Server stopped".
C37_Witness ==
    /\ lifeResult = "Server stopped" /\ ~server
    /\ \E p \in Req : respChan[p].closed /\ written[p] = GatewayTimeout

\* C38: in the pull variant every event in the events list belongs to a
\* request whose slot is in pendingReqs, so that the list is never longer
\* than the number of pending slots nor than maxConcurrentRequests.
C38_ListHoldsPendingOnly ==
    variant = PullV =>
        /\ \A k \in DOMAIN events : pendingReqs[events[k]] # 0
        /\ Len(events) <= Cardinality({i \in Ids : pendingReqs[i] # 0})
        /\ Len(events) <= maxConcurrentRequests

\* defer C.free_asgi_event(cEvent): the event structure made for the callback
\* is freed when handleRequestWithCallback has returned and its deferred
\* calls have run.
EventFreed(p) == variant = RoutedV /\ cb[p] # "none" /\ pc[p] = "done"

\* A result that call_event_callback returned and that nobody received:
\* free_asgi_response is only called on a received result.
ResultLeaked(p) == EventFreed(p) /\ respChan[p].buf # <<>>

\* C39: in the routed-callback variant the event structure passed to a
\* callback is never freed while the callback invocation that received it is
\* still running, also when the watchdog fired first, and no callback result
\* is left unreceived (hence unfreed) once the handler has returned.
C39_EventFreedSafely ==
    \A p \in Req : /\ EventFreed(p) => cb[p] # "running"
                   /\ ~ResultLeaked(p)

====
